---- MODULE Spec2Model ----
(***************************************************************************)
(* Oceanographic summary and coastal threat assessment of the coastal      *)
(* monitoring dashboard (hooks/use-earthdata.ts, lib/earthdata-api.ts).    *)
(*                                                                         *)
(* Numbers.  Observation values are fixed-point integers in the unit the   *)
(* provider rounds them to: SST and rainfall in 1/100 (28.00 degC = 2800,  *)
(* 25 mm = 2500), sea level and chlorophyll in 1/1000 (0.3 m = 300,        *)
(* 1.0 mg/m3 = 1000), wind in 1/10 (15 m/s = 150).  The result of a        *)
(* JavaScript division sum / length is kept exact as the fraction          *)
(* [num, den]; den = 0 is the NaN that 0 / 0 yields, and every comparison  *)
(* with NaN is false, as in JavaScript.                                    *)
(*                                                                         *)
(* The provider is the fetch capability behind useSSTData .. useRainfall-  *)
(* Data: what a call returns is chosen by the environment among the        *)
(* EarthdataResponse values of the bounded sets below.                     *)
(***************************************************************************)
EXTENDS Integers, Sequences, FiniteSets, TLC

VARIABLES clock, keyTime, queries, summary, threat,
          datasets, call, result,
          parameter, trendData, trends,
          cardParameter, fallbackData, showFallback, timer, view, parameterData

\* The state of useOceanographicSummary and useCoastalThreatAssessment.
hookVars == <<clock, keyTime, queries, summary, threat>>

\* The state of useHistoricalTrends: its parameter argument, the data of
\* its five queries and the value of its memo.
trendVars == <<parameter, trendData, trends>>

\* The state of the EarthdataAPIService instance: its private datasets map,
\* the operation being served and the settled promise it returned.
serviceVars == <<datasets, call, result>>

\* EarthdataOceanographicCard: its parameter prop, the object its last
\* call of generateDynamicFallbackData returned, its showFallback state, the
\* pending timeout of its effect, the branch its last render returned and
\* the object getParameterData returned in it.
cardVars == <<cardParameter, fallbackData, showFallback, timer, view, parameterData>>

vars == <<clock, keyTime, queries, summary, threat, datasets, call, result,
          parameter, trendData, trends, cardParameter, fallbackData,
          showFallback, timer, view, parameterData>>

(* ------------------------------ bounds --------------------------------- *)
MaxObs == 3
MaxClock == 2
MaxSeed == 1
MaxTrendObs == 3
MaxDraw == 8
\* Significant bits kept of a Number (53 in the engine); the timestamps of
\* the trend inputs are scaled to it.
Precision == 17

(* ------------------------------ kinds ---------------------------------- *)
Kinds == <<"sst", "seaLevel", "chlorophyll", "wind", "rainfall">>
KindSet == {Kinds[i] : i \in 1..Len(Kinds)}

\* undefined and null are records of their own, so that they compare (unequal)
\* with every response, summary and assessment; an absent error string is "".
Undefined == [undefined |-> TRUE]
Null == [null |-> TRUE]
NoError == ""
NaN == [num |-> 0, den |-> 0]

(* ------------------------------ numbers -------------------------------- *)
\* JavaScript x / n for integers x, n >= 0 of the reducers: 0 / 0 is NaN.
Div(x, n) == IF n = 0 THEN NaN ELSE [num |-> x, den |-> n]

\* x > t for a fraction x and an integer t; false when x is NaN.
Gt(x, t) == x.den > 0 /\ x.num > t * x.den

\* Math.abs
MathAbs(x) == [num |-> IF x.num < 0 THEN -x.num ELSE x.num, den |-> x.den]

\* Math.round(x * scale) / scale in the fixed-point unit: nearest integer,
\* halves towards +infinity; NaN stays NaN.
MathRound(x) == IF x.den = 0 THEN NaN
                ELSE [num |-> (2 * x.num + x.den) \div (2 * x.den), den |-> 1]

\* Array.prototype.reduce((sum, point) => sum + point[field], 0)
RECURSIVE reduceSum(_, _)
reduceSum(data, field) ==
  IF data = <<>> THEN 0
  ELSE reduceSum(SubSeq(data, 1, Len(data) - 1), field) + data[Len(data)][field]

(* --------------------------- provider responses ------------------------ *)
\* metadata.dataQuality of a successful response, in 1/100
\* (getSSTData .. getRainfallData).
dataQuality(kind) ==
  CASE kind = "sst"         -> [completeness |-> 95, accuracy |-> 92]
    [] kind = "seaLevel"    -> [completeness |-> 88, accuracy |-> 89]
    [] kind = "chlorophyll" -> [completeness |-> 82, accuracy |-> 85]
    [] kind = "wind"        -> [completeness |-> 91, accuracy |-> 87]
    [] kind = "rainfall"    -> [completeness |-> 94, accuracy |-> 90]

\* One observation as the mock generators build it: wind carries the same
\* number as value and speed, rainfall as value and accumulation.
Observation(kind, v) ==
  CASE kind = "wind"     -> [value |-> v, speed |-> v]
    [] kind = "rainfall" -> [value |-> v, accumulation |-> v]
    [] OTHER             -> [value |-> v]

\* The value a get*Data call returns from its try block.
OkResponse(kind, mockData) ==
  [data     |-> mockData,
   metadata |-> [totalCount |-> Len(mockData), dataQuality |-> dataQuality(kind)],
   error    |-> NoError]

\* The value a get*Data call returns from its catch block.
ErrorResponse ==
  [data     |-> <<>>,
   metadata |-> [totalCount |-> 0,
                 dataQuality |-> [completeness |-> 0, accuracy |-> 0]],
   error    |-> "Unknown error"]

(* --------------------------- dataset registry -------------------------- *)
dataset(id, variables, temporalResolution, spatialResolution) ==
  [id |-> id, variables |-> variables,
   temporalResolution |-> temporalResolution,
   spatialResolution |-> spatialResolution]

\* A Map is the sequence of its entries in insertion order; the key of an
\* entry is the id it was set under.
mapSet(map, key, value) ==
  IF \E i \in 1..Len(map) : map[i].key = key
  THEN [i \in 1..Len(map) |->
          IF map[i].key = key THEN [key |-> key, value |-> value] ELSE map[i]]
  ELSE Append(map, [key |-> key, value |-> value])

mapHas(map, key) == \E i \in 1..Len(map) : map[i].key = key

\* A variant of get that answers with the first entry for any known key.
mapGetFirst(map, key) ==
  IF mapHas(map, key) THEN map[1].value ELSE Undefined

\* Map.prototype.get: the value of the key, or undefined.
mapGet(map, key) ==
  IF mapHas(map, key)
  THEN map[CHOOSE i \in 1..Len(map) : map[i].key = key].value
  ELSE Undefined

\* Array.from(map.values())
mapValues(map) == [i \in 1..Len(map) |-> map[i].value]

setDataset(map, d) == mapSet(map, d.id, d)

\* EarthdataAPIService.initializeDatasets: ten set calls on a new Map.
initializeDatasets ==
  LET m0  == <<>>
      m1  == setDataset(m0, dataset("MUR_SST", <<"sst", "sst_anomaly">>, "daily", "1km"))
      m2  == setDataset(m1, dataset("GHRSST_L4", <<"sst", "quality">>, "daily", "5km"))
      m3  == setDataset(m2, dataset("AVISO_SLA", <<"sla", "adt", "ugos", "vgos">>,
                                    "daily", "0.25deg"))
      m4  == setDataset(m3, dataset("JASON_SLA", <<"sla", "wind_speed", "wave_height">>,
                                    "10-day", "0.2deg"))
      m5  == setDataset(m4, dataset("OCEANCOLOR_CHL",
                                    <<"chlor_a", "chlor_a_anom", "quality">>, "8-day", "4km"))
      m6  == setDataset(m5, dataset("VIIRS_CHL", <<"chlor_a", "nflh", "quality">>,
                                    "daily", "750m"))
      m7  == setDataset(m6, dataset("ASCAT_WIND",
                                    <<"wind_speed", "wind_direction", "quality">>,
                                    "daily", "25km"))
      m8  == setDataset(m7, dataset("CCMP_WIND",
                                    <<"uwnd", "vwnd", "wind_speed", "quality">>,
                                    "6-hourly", "0.25deg"))
      m9  == setDataset(m8, dataset("IMERG_RAIN",
                                    <<"precipitation", "precipitation_quality", "latent_heat">>,
                                    "30-minute", "0.1deg"))
  IN setDataset(m9, dataset("TRMM_RAIN",
                            <<"precipitation", "precipitation_quality", "latent_heat">>,
                            "3-hourly", "0.25deg"))

\* datasetId.includes(part) for the parts getDataQualityMetrics tests, as
\* the table of the ids that contain the part.
idIncludes(datasetId, part) ==
  CASE part = "SST"  -> datasetId \in {"MUR_SST", "GHRSST_L4"}
    [] part = "CHL"  -> datasetId \in {"OCEANCOLOR_CHL", "VIIRS_CHL"}
    [] part = "WIND" -> datasetId \in {"ASCAT_WIND", "CCMP_WIND"}
    [] part = "RAIN" -> datasetId \in {"IMERG_RAIN", "TRMM_RAIN"}

\* The branch of getDataQualityMetrics a dataset id takes: the only place
\* where the service tells the kinds of its datasets apart.
metricsBranch(datasetId) ==
  IF idIncludes(datasetId, "SST") THEN "SST"
  ELSE IF idIncludes(datasetId, "CHL") THEN "CHL"
  ELSE IF idIncludes(datasetId, "WIND") THEN "WIND"
  ELSE IF idIncludes(datasetId, "RAIN") THEN "RAIN"
  ELSE "base"

\* The promise an async method returns: none of the methods awaits, so the
\* promise is settled when the call returns. A value returned fulfils it,
\* an exception thrown rejects it.
Idle == [state |-> "idle"]
Fulfilled(value) == [state |-> "fulfilled", value |-> value]
Rejected(message) == [state |-> "rejected", reason |-> message]
NoCall == [op |-> "none"]

\* The dataset a get*Data call of a kind uses when params.dataset is falsy.
primaryDataset(kind) ==
  CASE kind = "sst"         -> "MUR_SST"
    [] kind = "seaLevel"    -> "AVISO_SLA"
    [] kind = "chlorophyll" -> "OCEANCOLOR_CHL"
    [] kind = "wind"        -> "ASCAT_WIND"
    [] kind = "rainfall"    -> "IMERG_RAIN"

(* --------------------------- per-parameter risk ------------------------ *)
SstHigh == 3000
SstMedium == 2800
SeaLevelHigh == 500
SeaLevelMedium == 300
ChlorophyllHigh == 1000
ChlorophyllMedium == 500
WindHigh == 150
WindMedium == 100
RainfallHigh == 5000
RainfallMedium == 2500

\* Variant: the SST tier is taken from the rounded mean.
sstRiskOfRounded(avg) ==
  IF Gt(MathRound(avg), SstHigh) THEN "high"
  ELSE IF Gt(MathRound(avg), SstMedium) THEN "medium" ELSE "low"

sstRisk(avg) ==
  IF Gt(avg, SstHigh) THEN "high"
  ELSE IF Gt(avg, SstMedium) THEN "medium" ELSE "low"

seaLevelRisk(avg) ==
  IF Gt(MathAbs(avg), SeaLevelHigh) THEN "high"
  ELSE IF Gt(MathAbs(avg), SeaLevelMedium) THEN "medium" ELSE "low"

chlorophyllRisk(avg) ==
  IF Gt(avg, ChlorophyllHigh) THEN "high"
  ELSE IF Gt(avg, ChlorophyllMedium) THEN "medium" ELSE "low"

windRisk(avg) ==
  IF Gt(avg, WindHigh) THEN "high"
  ELSE IF Gt(avg, WindMedium) THEN "medium" ELSE "low"

rainfallRisk(total) ==
  IF Gt(total, RainfallHigh) THEN "high"
  ELSE IF Gt(total, RainfallMedium) THEN "medium" ELSE "low"

(* --------------------------- reduced values ---------------------------- *)
sstAvg(data) == Div(reduceSum(data, "value"), Len(data))
seaLevelAvg(data) == Div(reduceSum(data, "value"), Len(data))
chlorophyllAvg(data) == Div(reduceSum(data, "value"), Len(data))
windAvg(data) == Div(reduceSum(data, "speed"), Len(data))
\* Variant: rainfall averaged like the other kinds.
rainfallTotalAveraged(data) == Div(reduceSum(data, "accumulation"), Len(data))
rainfallTotal(data) == [num |-> reduceSum(data, "accumulation"), den |-> 1]

\* data.length > 1 ? (last.value - first.value > 0 ? 'increasing'
\*                                                 : 'decreasing') : 'stable'
trendOf(data) ==
  IF Len(data) > 1
  THEN IF data[Len(data)].value - data[1].value > 0
       THEN "increasing" ELSE "decreasing"
  ELSE "stable"

\* [r1..r5].filter(risk => risk === 'high').length
RECURSIVE highCount(_)
highCount(risks) ==
  IF risks = <<>> THEN 0
  ELSE (IF risks[1] = "high" THEN 1 ELSE 0) + highCount(Tail(risks))

\* Variant: two 'high' tiers already give an overall 'high'.
overallRiskOfAtLeastTwo(risks) ==
  IF highCount(risks) >= 2 THEN "high"
  ELSE IF highCount(risks) > 0 THEN "medium" ELSE "low"

overallRiskOf(risks) ==
  IF highCount(risks) > 2 THEN "high"
  ELSE IF highCount(risks) > 0 THEN "medium" ELSE "low"

(* --------------------------- useOceanographicSummary ------------------- *)
\* boundingBox || [18, 72, 20, 75]: [minLat, minLon, maxLat, maxLon] in degrees.
defaultBbox == <<18, 72, 20, 75>>

\* location of the summary: the box and its center.
locationOf(bbox) ==
  [boundingBox |-> bbox,
   center |-> [lat |-> Div(bbox[1] + bbox[3], 2), lng |-> Div(bbox[2] + bbox[4], 2)]]

\* The guard of the memo: !sstData?.data || ... || !rainfallData?.data.
\* An array, empty or not, is truthy; only a query without a response
\* fails the test.
missingData(q) == \E k \in KindSet : q[k].data = Undefined

\* The body of React.useMemo in useOceanographicSummary, computed from the
\* five query results q at time now.
oceanSummaryMemo(q, now) ==
  IF missingData(q) THEN Null
  ELSE
    LET sst  == q["sst"].data.data
        sl   == q["seaLevel"].data.data
        chl  == q["chlorophyll"].data.data
        wnd  == q["wind"].data.data
        rain == q["rainfall"].data.data
        rSst  == sstRisk(sstAvg(sst))
        rSl   == seaLevelRisk(seaLevelAvg(sl))
        rChl  == chlorophyllRisk(chlorophyllAvg(chl))
        rWnd  == windRisk(windAvg(wnd))
        rRain == rainfallRisk(rainfallTotal(rain))
    IN [timestamp |-> now,
        location |-> locationOf(defaultBbox),
        parameters |->
          [seaSurfaceTemperature |->
             [value |-> MathRound(sstAvg(sst)), risk |-> rSst, trend |-> trendOf(sst)],
           seaLevel |->
             [value |-> MathRound(seaLevelAvg(sl)), risk |-> rSl, trend |-> trendOf(sl)],
           chlorophyll |->
             [value |-> MathRound(chlorophyllAvg(chl)), risk |-> rChl],
           wind |->
             [speed |-> MathRound(windAvg(wnd)), risk |-> rWnd],
           rainfall |->
             [total |-> MathRound(rainfallTotal(rain)), risk |-> rRain]],
        overallRisk |-> overallRiskOf(<<rSst, rSl, rChl, rWnd, rRain>>),
        dataQuality |->
          [sst         |-> q["sst"].data.metadata.dataQuality,
           seaLevel    |-> q["seaLevel"].data.metadata.dataQuality,
           chlorophyll |-> q["chlorophyll"].data.metadata.dataQuality,
           wind        |-> q["wind"].data.metadata.dataQuality,
           rainfall    |-> q["rainfall"].data.metadata.dataQuality]]

\* isLoading of the hook: sstLoading || ... || rainfallLoading; a query is
\* loading while it is pending and its first fetch is in flight.
isLoading(q) == \E k \in KindSet : q[k].status = "pending" /\ q[k].isFetching

(* --------------------------- useCoastalThreatAssessment ---------------- *)
SstScore == 25
SeaLevelScore == 30
ChlorophyllScore == 20
WindScore == 15
RainfallScore == 20
CriticalScore == 80
HighScore == 60
MediumScore == 30

\* Variant: the running score is clamped to 100.
assessStepClamped(acc, risk, delta, factor, recommendation) ==
  IF risk = "high"
  THEN [threatScore     |-> IF acc.threatScore + delta > 100 THEN 100
                            ELSE acc.threatScore + delta,
        threatFactors   |-> Append(acc.threatFactors, factor),
        recommendations |-> Append(acc.recommendations, recommendation)]
  ELSE acc

\* Variant: new entries are put in front of the lists (unshift for push).
assessStepUnshift(acc, risk, delta, factor, recommendation) ==
  IF risk = "high"
  THEN [threatScore     |-> acc.threatScore + delta,
        threatFactors   |-> <<factor>> \o acc.threatFactors,
        recommendations |-> <<recommendation>> \o acc.recommendations]
  ELSE acc

\* One "if (risk === 'high') { threatScore += delta; threatFactors.push(..);
\* recommendations.push(..) }" block applied to the running totals acc.
assessStep(acc, risk, delta, factor, recommendation) ==
  IF risk = "high"
  THEN [threatScore     |-> acc.threatScore + delta,
        threatFactors   |-> Append(acc.threatFactors, factor),
        recommendations |-> Append(acc.recommendations, recommendation)]
  ELSE acc

\* Variant: a score at the 'high' threshold is already 'critical'.
threatLevelOfEarlyCritical(threatScore) ==
  IF threatScore >= HighScore THEN "critical"
  ELSE IF threatScore >= MediumScore THEN "medium" ELSE "low"

\* Variant: strict comparisons in the level thresholds.
threatLevelOfStrict(threatScore) ==
  IF threatScore > CriticalScore THEN "critical"
  ELSE IF threatScore > HighScore THEN "high"
  ELSE IF threatScore > MediumScore THEN "medium" ELSE "low"

\* if (threatScore >= 80) critical; else if (>= 60) high; else if (>= 30) medium
threatLevelOf(threatScore) ==
  IF threatScore >= CriticalScore THEN "critical"
  ELSE IF threatScore >= HighScore THEN "high"
  ELSE IF threatScore >= MediumScore THEN "medium" ELSE "low"

\* The five blocks in their source order, starting from score 0 and empty lists.
assessAll(p) ==
  LET a0 == [threatScore |-> 0, threatFactors |-> <<>>, recommendations |-> <<>>]
      a1 == assessStep(a0, p.seaSurfaceTemperature.risk, SstScore,
                       "Elevated sea surface temperature",
                       "Monitor for coral bleaching and marine heat waves")
      a2 == assessStep(a1, p.seaLevel.risk, SeaLevelScore,
                       "Abnormal sea level variations",
                       "Prepare for potential coastal flooding")
      a3 == assessStep(a2, p.chlorophyll.risk, ChlorophyllScore,
                       "High chlorophyll concentration",
                       "Monitor for harmful algal blooms")
      a4 == assessStep(a3, p.wind.risk, WindScore,
                       "High wind speeds",
                       "Prepare for storm conditions")
  IN assessStep(a4, p.rainfall.risk, RainfallScore,
                "Heavy rainfall",
                "Monitor for runoff and water quality issues")

\* The body of React.useMemo in useCoastalThreatAssessment.
threatAssessmentMemo(oceanSummary) ==
  IF oceanSummary = Null THEN Null
  ELSE
    LET a == assessAll(oceanSummary.parameters)
    IN [threatScore     |-> a.threatScore,
        threatLevel     |-> threatLevelOf(a.threatScore),
        threatFactors   |-> a.threatFactors,
        recommendations |-> a.recommendations,
        timestamp       |-> oceanSummary.timestamp,
        location        |-> oceanSummary.location,
        parameters      |-> oceanSummary.parameters]

(* --------------------------- the query layer --------------------------- *)
\* A query of useQuery that was just created for a new key: no data, its
\* first fetch in flight (enabled is true: both dates are non-empty).
freshQuery == [status |-> "pending", data |-> Undefined, isFetching |-> TRUE]

\* Variant: queries of new keys show the data of the previous keys while
\* their own first fetch is in flight.
renderQueriesKeepPrevious(q, kt, now) ==
  IF now = kt THEN q
  ELSE [k \in KindSet |-> [status |-> "pending", data |-> q[k].data, isFetching |-> TRUE]]

\* A render of the component that uses the hooks, with the query results q
\* that belong to the keys of time kt.  The keys hold startDate and endDate,
\* taken from new Date() in the render: when the clock has advanced since kt
\* the five keys are new and so are the five queries.
renderQueries(q, kt, now) == IF now = kt THEN q ELSE [k \in KindSet |-> freshQuery]

\* Variant: the assessment memo misses its dependency and is computed from
\* the summary of the previous render.
RenderStaleThreat(q) ==
  LET q2 == renderQueries(q, keyTime, clock)
  IN /\ queries' = q2
     /\ keyTime' = clock
     /\ summary' = oceanSummaryMemo(q2, clock)
     /\ threat'  = threatAssessmentMemo(summary)
     /\ UNCHANGED <<serviceVars, trendVars, cardVars>>

\* What a render does to the hooks of the component.
RenderHooks(q) ==
  LET q2 == renderQueries(q, keyTime, clock)
  IN /\ queries' = q2
     /\ keyTime' = clock
     /\ summary' = oceanSummaryMemo(q2, clock)
     /\ threat'  = threatAssessmentMemo(oceanSummaryMemo(q2, clock))

Render(q) ==
  /\ RenderHooks(q)
  /\ UNCHANGED <<serviceVars, trendVars, cardVars>>

\* What the provider may answer to the aggregator's call for one kind.
HookValues(kind) ==
  CASE kind = "sst"         -> {3100}
    [] kind = "seaLevel"    -> {600}
    [] kind = "chlorophyll" -> {400}
    [] kind = "wind"        -> {160}
    [] kind = "rainfall"    -> {1000}

HookResponses(kind) ==
  {ErrorResponse, OkResponse(kind, <<>>)}
    \cup {OkResponse(kind, <<Observation(kind, v)>>) : v \in HookValues(kind)}

\* Variant: the summary memo is computed again only when the response for
\* rainfall arrives.
ResolveMemoOnRainfall(kind) ==
  /\ queries[kind].isFetching
  /\ \E r \in HookResponses(kind) :
       LET q  == [queries EXCEPT
                    ![kind] = [status |-> "success", data |-> r, isFetching |-> FALSE]]
           q2 == renderQueries(q, keyTime, clock)
           os == IF kind = "rainfall" THEN oceanSummaryMemo(q2, clock) ELSE summary
       IN /\ queries' = q2
          /\ keyTime' = clock
          /\ summary' = os
          /\ threat'  = threatAssessmentMemo(os)
          /\ UNCHANGED <<serviceVars, trendVars, cardVars>>
  /\ UNCHANGED clock

\* The promise of the fetch of one query settles with a response; the query
\* stores it and its observers render again.
Resolve(kind) ==
  /\ queries[kind].isFetching
  /\ \E r \in HookResponses(kind) :
       Render([queries EXCEPT
                 ![kind] = [status |-> "success", data |-> r, isFetching |-> FALSE]])
  /\ UNCHANGED clock

\* refetchInterval: a query that holds data fetches again in the background
\* and keeps its data meanwhile.
Refetch(kind) ==
  /\ queries[kind].data # Undefined
  /\ ~queries[kind].isFetching
  /\ Render([queries EXCEPT ![kind].isFetching = TRUE])
  /\ UNCHANGED clock

\* A render for another reason (a parent render, a state change of the
\* component).
Rerender ==
  /\ Render(queries)
  /\ UNCHANGED clock

\* Time passes.
Tick ==
  /\ clock < MaxClock
  /\ clock' = clock + 1
  /\ UNCHANGED <<keyTime, queries, summary, threat>>
  /\ UNCHANGED <<serviceVars, trendVars, cardVars>>

\* The service after its constructor, with no call made.
InitService ==
  /\ datasets = initializeDatasets
  /\ call = NoCall
  /\ result = Idle

\* useHistoricalTrends on its first render: no query has data, the memo
\* returns null.
InitTrends ==
  /\ parameter = "sst"
  /\ trendData = [k \in KindSet |-> Undefined]
  /\ trends = Null

\* A card after its first render: the queries are loading, the skeleton is
\* returned and the effect has set its timeout.
InitCard ==
  /\ cardParameter = "sst"
  /\ fallbackData = Null
  /\ showFallback = FALSE
  /\ timer = [at |-> 0, isLoading |-> TRUE]
  /\ view = "skeleton"
  /\ parameterData = Null

Init ==
  /\ clock = 0
  /\ keyTime = 0
  /\ queries = [k \in KindSet |-> freshQuery]
  /\ summary = Null
  /\ threat = Null
  /\ InitService
  /\ InitTrends
  /\ InitCard

Next ==
  \/ \E k \in KindSet : Resolve(k)
  \/ \E k \in KindSet : Refetch(k)
  \/ Rerender
  \/ Tick

Spec == Init /\ [][Next]_vars

(* --------------------------- the memos as functions -------------------- *)
\* Observation values the five responses are drawn from when the memos are
\* checked as functions of the responses: around both thresholds of a kind.
MemoValues(kind) ==
  CASE kind = "sst"         -> {2700, 2800, 3000, 3001}
    [] kind = "seaLevel"    -> {-600, -300, 300, 500}
    [] kind = "chlorophyll" -> {400, 500, 1000, 1001}
    [] kind = "wind"        -> {90, 100, 150, 151}
    [] kind = "rainfall"    -> {0, 1000, 2500, 5001}

MemoBaseline(kind) ==
  CASE kind = "sst"         -> 2700
    [] kind = "seaLevel"    -> 300
    [] kind = "chlorophyll" -> 400
    [] kind = "wind"        -> 90
    [] kind = "rainfall"    -> 0

SeqsUpTo(S, n) == UNION {[1..m -> S] : m \in 0..n}

settled(r) == [status |-> "success", data |-> r, isFetching |-> FALSE]

\* One kind answers with any sequence of up to MaxObs observations, the
\* other four with one baseline observation.
VaryOne ==
  {[k \in KindSet |->
      settled(OkResponse(k, IF k = j
                            THEN [i \in DOMAIN s |-> Observation(k, s[i])]
                            ELSE <<Observation(k, MemoBaseline(k))>>))] :
     <<j, s>> \in UNION {{<<kk, ss>> : ss \in SeqsUpTo(MemoValues(kk), MaxObs)} :
                          kk \in KindSet}}

\* Every kind answers with one observation: all combinations of tiers.
AllSingle ==
  {[k \in KindSet |->
      settled(OkResponse(k, <<Observation(k,
        CASE k = "sst" -> a [] k = "seaLevel" -> b [] k = "chlorophyll" -> c
          [] k = "wind" -> d [] k = "rainfall" -> e)>>))] :
     a \in MemoValues("sst"), b \in MemoValues("seaLevel"),
     c \in MemoValues("chlorophyll"), d \in MemoValues("wind"),
     e \in MemoValues("rainfall")}

\* The five queries have settled with responses of the input sets and the
\* render that follows has not run yet.
InitMemo ==
  /\ clock = 0
  /\ keyTime = 0
  /\ queries \in VaryOne \cup AllSingle
  /\ summary = Null
  /\ threat = Null
  /\ InitService
  /\ InitTrends
  /\ InitCard

NextMemo == Rerender

SpecMemo == InitMemo /\ [][NextMemo]_vars

(* --------------------------- EarthdataAPIService ----------------------- *)
\* Coordinates are in 1/100 degree and instants in milliseconds.
Has(params, field) == field \in DOMAIN params

\* params.boundingBox || [18, 72, 20, 75]
bboxOf(params) ==
  IF Has(params, "boundingBox") THEN params.boundingBox
  ELSE [i \in 1..4 |-> 100 * defaultBbox[i]]

\* A variant that tests params.dataset !== undefined instead of truthiness.
datasetOfStrict(kind, params) ==
  IF Has(params, "dataset") THEN params.dataset ELSE primaryDataset(kind)

\* params.dataset || primary: undefined and the empty string are falsy.
datasetOf(kind, params) ==
  IF Has(params, "dataset") /\ params.dataset # "" THEN params.dataset
  ELSE primaryDataset(kind)

\* Increment of the lat and lon loops of generateMock*Data.
spatialStep(kind) ==
  CASE kind = "sst"         -> 10
    [] kind = "seaLevel"    -> 25
    [] kind = "chlorophyll" -> 4
    [] kind = "wind"        -> 25
    [] kind = "rainfall"    -> 10

\* Increment of the date loop: one day, eight days, three hours (the local
\* zone is taken to have no daylight-saving shift inside the range).
temporalStep(kind) ==
  CASE kind = "chlorophyll" -> 8 * 24 * 60 * 60 * 1000
    [] kind = "rainfall"    -> 3 * 60 * 60 * 1000
    [] OTHER                -> 24 * 60 * 60 * 1000

\* for (x = lo; x <= hi; x += step): the values x takes.
RECURSIVE axis(_, _, _)
axis(lo, hi, step) ==
  IF lo <= hi THEN <<lo>> \o axis(lo + step, hi, step) ELSE <<>>

\* lat and lon are doubles and 0.1, 0.04 are not binary fractions: when the
\* span is a whole number of steps the accumulated x of the last round may
\* fall on either side of hi, so that round may or may not run.
axes(lo, hi, step) ==
  {axis(lo, hi, step)} \cup
    (IF hi > lo /\ (hi - lo) % step = 0 THEN {axis(lo, hi - step, step)} ELSE {})

\* The values Math.random leads to, as the stream a seed selects.
MockValues(kind) ==
  CASE kind = "sst"         -> <<2450, 2600>>
    [] kind = "seaLevel"    -> <<450, 600>>
    [] kind = "chlorophyll" -> <<300, 700>>
    [] kind = "wind"        -> <<80, 120>>
    [] kind = "rainfall"    -> <<0, 1234>>

Seeds == 0..MaxSeed

mockValue(kind, seed, i) ==
  MockValues(kind)[((seed + i) % Len(MockValues(kind))) + 1]

\* data.push({...}) of generateMock*Data: source is the literal of the kind.
mockPoint(kind, d, lat, lon, v) ==
  Observation(kind, v) @@
    [timestamp |-> d, latitude |-> lat, longitude |-> lon,
     source |-> primaryDataset(kind)]

\* The three nested loops, in push order.
mockGrid(kind, seed, ds, lats, lons) ==
  [i \in 1..(Len(ds) * Len(lats) * Len(lons)) |->
     mockPoint(kind,
               ds[((i - 1) \div (Len(lats) * Len(lons))) + 1],
               lats[(((i - 1) \div Len(lons)) % Len(lats)) + 1],
               lons[((i - 1) % Len(lons)) + 1],
               mockValue(kind, seed, i))]

\* generateMock*Data(params): every array the loops can build.
generateMockData(kind, params, seed) ==
  LET bbox == bboxOf(params)
      ds   == axis(params.startDate, params.endDate, temporalStep(kind))
  IN {mockGrid(kind, seed, ds, lats, lons) :
        lats \in axes(bbox[1], bbox[3], spatialStep(kind)),
        lons \in axes(bbox[2], bbox[4], spatialStep(kind))}

\* The object the try block of get*Data returns.
dataResponse(kind, params, datasetInfo, mockData) ==
  [OkResponse(kind, mockData) EXCEPT
     !.metadata = @ @@
       [timeRange |-> [start |-> params.startDate, end |-> params.endDate],
        spatialCoverage |->
          [boundingBox |-> IF Has(params, "boundingBox") THEN params.boundingBox
                           ELSE <<-9000, -18000, 9000, 18000>>,
           resolution |-> datasetInfo.spatialResolution]]]

\* get*Data(params): the ways the returned promise can settle. The throw
\* for an unknown dataset stands before the try block, so it is not caught;
\* inside the try block nothing throws for these params, which leaves the
\* catch block without a case.
getData(kind, params, seed) ==
  LET id          == datasetOf(kind, params)
      datasetInfo == mapGet(datasets, id)
  IN IF datasetInfo = Undefined
     THEN {Rejected([text |-> "Dataset not found", dataset |-> id])}
     ELSE {Fulfilled(dataResponse(kind, params, datasetInfo, mockData)) :
             mockData \in generateMockData(kind, params, seed)}

Instants == {0, 3 * 60 * 60 * 1000, 24 * 60 * 60 * 1000}
Lats == {1800, 1805, 1810}
Lons == {7200, 7210}
DatasetIds == {"MUR_SST", "GHRSST_L4", "ASCAT_WIND", "NOT_A_DATASET", ""}

\* The params objects of the calls: boundingBox and dataset are optional.
ParamSet ==
  LET range == {[startDate |-> s, endDate |-> e] : s \in Instants, e \in Instants}
      boxes == {<<a, b, c, d>> : a \in Lats, b \in Lons, c \in Lats, d \in Lons}
      r1    == range \cup {r @@ [boundingBox |-> b] : r \in range, b \in boxes}
  IN r1 \cup {r @@ [dataset |-> id] : r \in r1, id \in DatasetIds}

GetData(kind) ==
  /\ result = Idle
  /\ \E params \in ParamSet, seed \in Seeds :
       /\ call' = [op |-> "getData", kind |-> kind, params |-> params]
       /\ result' \in getData(kind, params, seed)
  /\ UNCHANGED <<hookVars, datasets, trendVars, cardVars>>

GetAvailableDatasets ==
  /\ result = Idle
  /\ call' = [op |-> "getAvailableDatasets"]
  /\ result' = Fulfilled(mapValues(datasets))
  /\ UNCHANGED <<hookVars, datasets, trendVars, cardVars>>

\* this.datasets.get(datasetId) || null
GetDatasetInfo ==
  /\ result = Idle
  /\ \E datasetId \in DatasetIds \cup {e.key : e \in {datasets[i] : i \in 1..Len(datasets)}} :
       /\ call' = [op |-> "getDatasetInfo", datasetId |-> datasetId]
       /\ result' = Fulfilled(IF mapGet(datasets, datasetId) = Undefined THEN Null
                              ELSE mapGet(datasets, datasetId))
  /\ UNCHANGED <<hookVars, datasets, trendVars, cardVars>>

\* The caller's continuation takes the settled promise.
Settle ==
  /\ result # Idle
  /\ call' = NoCall
  /\ result' = Idle
  /\ UNCHANGED <<hookVars, datasets, trendVars, cardVars>>

NextProvider ==
  \/ \E kind \in KindSet : GetData(kind)
  \/ GetAvailableDatasets
  \/ GetDatasetInfo
  \/ Settle

SpecProvider == Init /\ [][NextProvider]_vars

(* --------------------------- Number arithmetic ------------------------- *)
\* The weight of the last significant bit of a magnitude a.
RECURSIVE ulp(_)
ulp(a) == IF a < 2^Precision THEN 1 ELSE 2 * ulp(a \div 2)

\* The Number nearest to the integer x: round to nearest, ties to even.
fl(x) ==
  LET a    == IF x < 0 THEN -x ELSE x
      q    == ulp(a)
      lo   == (a \div q) * q
      rem  == a - lo
      near == IF 2 * rem > q \/ (2 * rem = q /\ (a \div q) % 2 = 1)
              THEN lo + q ELSE lo
  IN IF x < 0 THEN -near ELSE near

\* xs.reduce((sum, x) => sum + x, 0)
RECURSIVE flSum(_)
flSum(xs) ==
  IF xs = <<>> THEN 0
  ELSE fl(flSum(SubSeq(xs, 1, Len(xs) - 1)) + xs[Len(xs)])

\* xs.reduce((sum, x, i) => sum + x * ys[i], 0)
flSumProducts(xs, ys) == flSum([i \in 1..Len(xs) |-> fl(xs[i] * ys[i])])

(* --------------------------- useHistoricalTrends ----------------------- *)
\* Units of the fixed-point value of a kind in one unit of the source.
unitsOf(kind) ==
  CASE kind = "sst"         -> 100
    [] kind = "seaLevel"    -> 1000
    [] kind = "chlorophyll" -> 1000
    [] kind = "wind"        -> 10
    [] kind = "rainfall"    -> 100

\* A variant of the switch that waits for all five responses, as the guard
\* of the summary memo does.
selectDataOfAll(p, d) ==
  IF \E k \in KindSet : d[k] = Undefined THEN Undefined ELSE d[p]

\* The switch on parameter: data is the response of that kind.
selectData(p, d) == d[p]

\* data.data.map(point => parameter === 'wind' ? point.speed : point.value)
valuesOf(p, data) ==
  [i \in 1..Len(data) |-> IF p = "wind" THEN data[i].speed ELSE data[i].value]

\* data.data.map(point => new Date(point.timestamp).getTime())
timestampsOf(data) == [i \in 1..Len(data) |-> data[i].timestamp]

\* n * sumXY - sumX * sumY
slopeNumerator(ts, vs) ==
  fl(fl(Len(vs) * flSumProducts(ts, vs)) - fl(flSum(ts) * flSum(vs)))

\* n * sumXX - sumX * sumX
slopeDenominator(ts) ==
  fl(fl(Len(ts) * flSumProducts(ts, ts)) - fl(flSum(ts) * flSum(ts)))

\* slope > 0.001 ? 'increasing' : slope < -0.001 ? 'decreasing' : 'stable'
\* for slope = num / (den * units): x / 0 is Infinity, -Infinity or NaN, and
\* every comparison with NaN is false.
trendOfSlope(num, den, units) ==
  LET m == 1000 \div units
  IN IF den = 0
     THEN (IF num > 0 THEN "increasing" ELSE IF num < 0 THEN "decreasing" ELSE "stable")
     ELSE IF den > 0
     THEN (IF m * num > den THEN "increasing"
           ELSE IF m * num < -den THEN "decreasing" ELSE "stable")
     ELSE (IF m * num < den THEN "increasing"
           ELSE IF m * num > -den THEN "decreasing" ELSE "stable")

Min(S) == CHOOSE x \in S : \A y \in S : x <= y
Max(S) == CHOOSE x \in S : \A y \in S : x >= y
Range(f) == {f[i] : i \in DOMAIN f}

\* The memo of useHistoricalTrends. slope is kept as the quotient before
\* Math.round(slope * 1000000) / 1000000, which leaves NaN and the
\* infinities as they are.
trendsMemo(p, d) ==
  LET data == selectData(p, d)
  IN IF data = Undefined THEN Null
     ELSE IF data.data = <<>> THEN Null
     ELSE LET values     == valuesOf(p, data.data)
              timestamps == timestampsOf(data.data)
              n          == Len(values)
              num        == slopeNumerator(timestamps, values)
              den        == slopeDenominator(timestamps)
          IN [parameter  |-> p,
              statistics |->
                [min        |-> Min(Range(values)),
                 max        |-> Max(Range(values)),
                 average    |-> Div(flSum(values), n),
                 trend      |-> trendOfSlope(num, den, unitsOf(p)),
                 slope      |-> [num |-> num, den |-> den * unitsOf(p)],
                 dataPoints |-> n],
              data       |-> data.data,
              metadata   |-> data.metadata]

\* isLoading of the hook
trendsLoading(d) == \E k \in KindSet : d[k] = Undefined

\* One render of the hook: the memo is recomputed from its dependencies.
RenderTrends(p, d) ==
  /\ parameter' = p
  /\ trendData' = d
  /\ trends' = trendsMemo(p, d)
  /\ UNCHANGED <<hookVars, serviceVars, cardVars>>

\* Instants in ms: two that are 1 ms apart and one 400 ms later.
Stamps == {1000, 1001, 1400}

TrendValues(kind) ==
  CASE kind = "sst"         -> {2700, 2741}
    [] kind = "seaLevel"    -> {100, 501}
    [] kind = "chlorophyll" -> {100, 501}
    [] kind = "wind"        -> {80, 85}
    [] kind = "rainfall"    -> {0, 41}

TrendPoint(kind, t, v) == Observation(kind, v) @@ [timestamp |-> t]

\* Responses with up to MaxTrendObs observations.
TrendResponses(kind) ==
  {OkResponse(kind, data) :
     data \in SeqsUpTo({TrendPoint(kind, t, v) : t \in Stamps, v \in TrendValues(kind)},
                       MaxTrendObs)}

\* No response yet, a failed one, or one observation.
PoorResponses(kind) ==
  {Undefined, ErrorResponse,
   OkResponse(kind, <<TrendPoint(kind, 1000, Min(TrendValues(kind)))>>)}

\* One kind answers with any of its responses, the other four with one
\* observation.
TrendInputs ==
  UNION {{[k \in KindSet |-> IF k = kind THEN r
                             ELSE OkResponse(k, <<TrendPoint(k, 1000, Min(TrendValues(k)))>>)] :
            r \in TrendResponses(kind)} : kind \in KindSet}

InitTrend ==
  /\ clock = 0
  /\ keyTime = 0
  /\ queries = [k \in KindSet |-> freshQuery]
  /\ summary = Null
  /\ threat = Null
  /\ InitService
  /\ InitCard
  /\ parameter \in KindSet
  /\ trendData \in TrendInputs \cup {[k \in KindSet |-> Undefined]}
  /\ trends = trendsMemo(parameter, trendData)

\* A query of the hook gets its first response.
ResolveTrend(kind) ==
  /\ trendData[kind] = Undefined
  /\ \E r \in PoorResponses(kind) \ {Undefined} :
       RenderTrends(parameter, [trendData EXCEPT ![kind] = r])

\* The component passes another parameter.
ChangeParameter(p) ==
  /\ p # parameter
  /\ RenderTrends(p, trendData)

NextTrend ==
  \/ \E kind \in KindSet : ResolveTrend(kind)
  \/ \E p \in KindSet : ChangeParameter(p)

SpecTrend == InitTrend /\ [][NextTrend]_vars

(* ======================= properties: threat assessment ================= *)
Assessed == summary # Null /\ threat # Null

P == summary.parameters

IfHigh(risk, x, none) == IF risk = "high" THEN x ELSE none

HighKinds ==
  {k \in {"seaSurfaceTemperature", "seaLevel", "chlorophyll", "wind", "rainfall"} :
     P[k].risk = "high"}

C2_LevelFromScore ==
  Assessed =>
    LET sc == threat.threatScore
        lv == threat.threatLevel
    IN /\ (sc >= 80 => lv = "critical")
       /\ (sc >= 60 /\ sc < 80 => lv = "high")
       /\ (sc >= 30 /\ sc < 60 => lv = "medium")
       /\ (sc < 30 => lv = "low")

C2_Witness == Assessed /\ threat.threatScore = 80 /\ threat.threatLevel = "critical"

\* C3 (as claimed): the threat score of every assessment lies in 0..100.
C3_ScoreWithin0To100 ==
  Assessed => threat.threatScore >= 0 /\ threat.threatScore <= 100

\* C4: factors and recommendations hold one entry per 'high' parameter in
\* the order SST, sea level, chlorophyll, wind, rainfall; the lists have the
\* same length; with no parameter high both are empty, the score is 0 and
\* the level is 'low'.
C4_ListsInFixedOrder ==
  Assessed =>
    /\ threat.threatFactors =
         IfHigh(P.seaSurfaceTemperature.risk, <<"Elevated sea surface temperature">>, <<>>)
         \o IfHigh(P.seaLevel.risk, <<"Abnormal sea level variations">>, <<>>)
         \o IfHigh(P.chlorophyll.risk, <<"High chlorophyll concentration">>, <<>>)
         \o IfHigh(P.wind.risk, <<"High wind speeds">>, <<>>)
         \o IfHigh(P.rainfall.risk, <<"Heavy rainfall">>, <<>>)
    /\ threat.recommendations =
         IfHigh(P.seaSurfaceTemperature.risk,
                <<"Monitor for coral bleaching and marine heat waves">>, <<>>)
         \o IfHigh(P.seaLevel.risk, <<"Prepare for potential coastal flooding">>, <<>>)
         \o IfHigh(P.chlorophyll.risk, <<"Monitor for harmful algal blooms">>, <<>>)
         \o IfHigh(P.wind.risk, <<"Prepare for storm conditions">>, <<>>)
         \o IfHigh(P.rainfall.risk,
                   <<"Monitor for runoff and water quality issues">>, <<>>)
    /\ Len(threat.threatFactors) = Cardinality(HighKinds)
    /\ Len(threat.recommendations) = Len(threat.threatFactors)
    /\ (HighKinds = {} =>
          /\ threat.threatScore = 0
          /\ threat.threatFactors = <<>>
          /\ threat.recommendations = <<>>
          /\ threat.threatLevel = "low")

C4_Witness ==
  /\ Assessed
  /\ HighKinds = {"seaSurfaceTemperature", "chlorophyll", "rainfall"}
  /\ Len(threat.threatFactors) = 3

(* ======================= properties: summary =========================== *)
\* The observations a settled query of a kind holds.
dataOf(kind) == queries[kind].data.data

\* Sum of a field over a sequence, by index.
RECURSIVE Sigma(_, _, _)
Sigma(data, field, i) ==
  IF i = 0 THEN 0 ELSE data[i][field] + Sigma(data, field, i - 1)

SumOf(kind, field) == Sigma(dataOf(kind), field, Len(dataOf(kind)))

Magnitude(x) == IF x < 0 THEN -x ELSE x

\* v is the integer nearest to sum / n (halves upwards).
IsRounded(v, sum, n) ==
  /\ v.den = 1
  /\ 2 * n * v.num <= 2 * sum + n
  /\ 2 * sum + n < 2 * n * (v.num + 1)

\* C7: overall risk depends only on the number of 'high' tiers: more than 2
\* gives 'high', 1 or 2 'medium', 0 'low'.
C7_OverallRiskFromHighCount ==
  summary # Null =>
    LET n == Cardinality(HighKinds)
    IN /\ (n > 2 => summary.overallRisk = "high")
       /\ (n \in {1, 2} => summary.overallRisk = "medium")
       /\ (n = 0 => summary.overallRisk = "low")

C7_Witness ==
  summary # Null /\ Cardinality(HighKinds) = 3 /\ summary.overallRisk = "high"

\* C8 (as claimed): a mean SST of exactly 28.00 is 'medium', of exactly 30.00
\* 'medium', above 30 'high', below 28 'low'.
C8_SstBoundaries ==
  (summary # Null /\ dataOf("sst") # <<>>) =>
    LET sum == SumOf("sst", "value")
        n   == Len(dataOf("sst"))
        r   == P.seaSurfaceTemperature.risk
    IN /\ (sum = 2800 * n => r = "medium")
       /\ (sum = 3000 * n => r = "medium")
       /\ (sum > 3000 * n => r = "high")
       /\ (sum < 2800 * n => r = "low")

\* The tier table of a kind with an inclusive lower bound of the medium band.
TableHolds(r, sum, n, medium, high) ==
  /\ (sum < medium * n => r = "low")
  /\ (sum = medium * n => r = "medium")
  /\ (sum > high * n => r = "high")

\* C9 (as claimed): sea level (by magnitude), chlorophyll, wind and rainfall
\* follow the table: below 0.3 / 0.5 / 10 / 25 'low', exactly there 'medium',
\* above 0.5 / 1.0 / 15 / 50 'high'.
C9_TierTable ==
  (summary # Null /\ \A k \in KindSet : dataOf(k) # <<>>) =>
    /\ TableHolds(P.seaLevel.risk, Magnitude(SumOf("seaLevel", "value")),
                  Len(dataOf("seaLevel")), 300, 500)
    /\ TableHolds(P.chlorophyll.risk, SumOf("chlorophyll", "value"),
                  Len(dataOf("chlorophyll")), 500, 1000)
    /\ TableHolds(P.wind.risk, SumOf("wind", "speed"),
                  Len(dataOf("wind")), 100, 150)
    /\ TableHolds(P.rainfall.risk, SumOf("rainfall", "accumulation"), 1, 2500, 5000)

\* C10: for non-empty data the reduced value of SST, sea level and
\* chlorophyll is the mean of value, of wind the mean of speed, of rainfall
\* the sum of accumulation, and the rainfall tier follows that sum.  The
\* summary shows the reduced value rounded to the unit of the kind.
C10_MeanAndSum ==
  (summary # Null /\ \A k \in KindSet : dataOf(k) # <<>>) =>
    /\ IsRounded(P.seaSurfaceTemperature.value, SumOf("sst", "value"), Len(dataOf("sst")))
    /\ IsRounded(P.seaLevel.value, SumOf("seaLevel", "value"), Len(dataOf("seaLevel")))
    /\ IsRounded(P.chlorophyll.value, SumOf("chlorophyll", "value"),
                 Len(dataOf("chlorophyll")))
    /\ IsRounded(P.wind.speed, SumOf("wind", "speed"), Len(dataOf("wind")))
    /\ P.rainfall.total = [num |-> SumOf("rainfall", "accumulation"), den |-> 1]
    /\ (SumOf("rainfall", "accumulation") > 5000 => P.rainfall.risk = "high")
    /\ (SumOf("rainfall", "accumulation") < 2500 => P.rainfall.risk = "low")
    /\ (SumOf("rainfall", "accumulation") > 2500
          /\ SumOf("rainfall", "accumulation") <= 5000 => P.rainfall.risk = "medium")

\* Three rainfall observations, none above 50 mm, whose sum is above 50 mm
\* and whose mean is not; two SST observations with different values.
C10_Witness ==
  /\ summary # Null
  /\ Len(dataOf("rainfall")) = 3
  /\ \A i \in 1..3 : dataOf("rainfall")[i].accumulation <= 5000
  /\ SumOf("rainfall", "accumulation") > 5000
  /\ P.rainfall.risk = "high"

(* ======================= properties: the join ========================== *)
\* C5 (as claimed): when one of the five responses has an empty data array
\* (an error response included) the summary is none.
C5_EmptyDataGivesNoSummary ==
  (\E k \in KindSet : queries[k].status = "success" /\ dataOf(k) = <<>>)
    => summary = Null

\* C6: a summary is exposed only when each of the five calls has delivered
\* a response for the current queries; while one of them has not, the
\* summary is none and the hook reports loading.
C6_NoPartialSummary ==
  /\ summary # Null => \A k \in KindSet : queries[k].status = "success"
  /\ (\E k \in KindSet : queries[k].status = "pending")
       => summary = Null /\ threat = Null /\ isLoading(queries)

\* Four calls have completed, the fifth is outstanding, nothing is shown.
C6_Witness ==
  /\ Cardinality({k \in KindSet : queries[k].status = "success"}) = 4
  /\ summary = Null

(* ======================= properties: trend of the summary ============== *)
TrendAsClaimed(data, trend) ==
  /\ (Len(data) < 2 => trend = "stable")
  /\ (Len(data) >= 2 /\ data[Len(data)].value > data[1].value => trend = "increasing")
  /\ (Len(data) >= 2 /\ data[Len(data)].value < data[1].value => trend = "decreasing")
  /\ (Len(data) >= 2 /\ data[Len(data)].value = data[1].value => trend = "stable")

\* C11 (as claimed): the trend of a parameter in the summary is 'increasing'
\* when the last value is above the first, 'decreasing' when it is below,
\* and 'stable' when both are equal or there are fewer than 2 observations.
C11_TrendDirection ==
  summary # Null =>
    /\ TrendAsClaimed(dataOf("sst"), P.seaSurfaceTemperature.trend)
    /\ TrendAsClaimed(dataOf("seaLevel"), P.seaLevel.trend)

(* ======================= properties: assessment and summary ============ *)
\* C12: the threat assessment is none exactly when the summary is none, and
\* otherwise carries the timestamp, location and parameters of that summary.
C12_AssessmentFollowsSummary ==
  /\ (threat = Null) <=> (summary = Null)
  /\ threat # Null =>
       /\ threat.timestamp = summary.timestamp
       /\ threat.location = summary.location
       /\ threat.parameters = summary.parameters

\* An assessment of a summary computed after the clock has advanced.
C12_Witness == threat # Null /\ summary # Null /\ threat.timestamp > 0

(* ======================= properties: the provider ====================== *)
Fetched == call.op = "getData"

Rejects == Fetched /\ result.state = "rejected"

FailureResponse(r) ==
  /\ r.data = <<>>
  /\ r.metadata.totalCount = 0
  /\ r.metadata.dataQuality.completeness = 0
  /\ r.metadata.dataQuality.accuracy = 0
  /\ r.error # NoError

\* C13 (as claimed): a fetch never rejects; every failure, a dataset id that
\* is not in the registry included, is a fulfilled response with empty data,
\* zeroed metadata and a non-empty error string.
C13_FetchNeverRejects ==
  Fetched =>
    /\ result.state = "fulfilled"
    /\ ~mapHas(datasets, datasetOf(call.kind, call.params)) =>
         FailureResponse(result.value)

\* C14 (as claimed): a fetch fails exactly when a dataset id is supplied
\* that is not a key of the registry.
C14_FailsIffSuppliedUnknown ==
  Fetched =>
    (Rejects <=> (Has(call.params, "dataset")
                    /\ ~mapHas(datasets, call.params.dataset)))

\* C14 (amended): a fetch fails, with the unknown-dataset error naming the
\* id and without a response, exactly when a non-empty dataset id is
\* supplied that is not a key of the registry; when the id is omitted or is
\* the empty string the primary dataset of the kind is used and the fetch
\* does not fail.
C14_FailsIffNonEmptyUnknown ==
  Fetched =>
    /\ Rejects <=> (Has(call.params, "dataset") /\ call.params.dataset # ""
                      /\ ~mapHas(datasets, call.params.dataset))
    /\ Rejects =>
         result = Rejected([text |-> "Dataset not found",
                            dataset |-> call.params.dataset])
    /\ (~Has(call.params, "dataset") \/ call.params.dataset = "") =>
         /\ result.state = "fulfilled"
         /\ result.value.metadata.spatialCoverage.resolution =
              mapGet(initializeDatasets, primaryDataset(call.kind)).spatialResolution

\* A fetch of wind data with the empty string as dataset id has succeeded
\* on the primary wind dataset.
C14_Witness ==
  /\ Fetched /\ call.kind = "wind"
  /\ Has(call.params, "dataset") /\ call.params.dataset = ""
  /\ result.state = "fulfilled"
  /\ result.value.metadata.spatialCoverage.resolution = "25km"

OnAxis(data, field, x) == \E i \in 1..Len(data) : data[i][field] = x

\* C15 (as claimed): with start <= end the iteration of the box is inclusive
\* on both ends, so every bound of a well-formed box that lies on the grid
\* of the kind has a sample, a box of zero extent has samples, and a
\* malformed box gives no observations.
C15_BoxInclusiveOnBothEnds ==
  (Fetched /\ result.state = "fulfilled"
     /\ call.params.startDate <= call.params.endDate) =>
    LET bbox == bboxOf(call.params)
        step == spatialStep(call.kind)
        data == result.value.data
    IN /\ (bbox[1] <= bbox[3] /\ bbox[2] <= bbox[4]) =>
            /\ data # <<>>
            /\ OnAxis(data, "latitude", bbox[1])
            /\ OnAxis(data, "longitude", bbox[2])
            /\ ((bbox[3] - bbox[1]) % step = 0 => OnAxis(data, "latitude", bbox[3]))
            /\ ((bbox[4] - bbox[2]) % step = 0 => OnAxis(data, "longitude", bbox[4]))
       /\ (bbox[1] > bbox[3] \/ bbox[2] > bbox[4]) => data = <<>>

RegistryIds ==
  <<"MUR_SST", "GHRSST_L4", "AVISO_SLA", "JASON_SLA", "OCEANCOLOR_CHL",
    "VIIRS_CHL", "ASCAT_WIND", "CCMP_WIND", "IMERG_RAIN", "TRMM_RAIN">>

\* C16: the registry holds ten descriptors with distinct ids, two for each
\* kind, and no operation changes it: the list operation returns the ten
\* descriptors, get of one of the ids returns the descriptor with that id
\* and get of any other id returns null.
C16_RegistryFixed ==
  /\ datasets = initializeDatasets
  /\ [i \in 1..Len(datasets) |-> datasets[i].key] = RegistryIds
  /\ \A i, j \in 1..Len(datasets) : datasets[i].key = datasets[j].key => i = j
  /\ \A b \in {"SST", "CHL", "WIND", "RAIN", "base"} :
       Cardinality({i \in 1..Len(datasets) : metricsBranch(datasets[i].key) = b}) = 2
  /\ call.op = "getAvailableDatasets" =>
       /\ result.state = "fulfilled"
       /\ [i \in 1..Len(result.value) |-> result.value[i].id] = RegistryIds
       /\ result.value = mapValues(initializeDatasets)
  /\ call.op = "getDatasetInfo" =>
       /\ result.state = "fulfilled"
       /\ (\E i \in 1..10 : RegistryIds[i] = call.datasetId) =>
            (result.value # Null /\ result.value.id = call.datasetId)
       /\ (\A i \in 1..10 : RegistryIds[i] # call.datasetId) =>
            result.value = Null

\* get has answered for the second SST dataset.
C16_Witness ==
  /\ call.op = "getDatasetInfo" /\ call.datasetId = "GHRSST_L4"
  /\ result.value # Null /\ result.value.id = "GHRSST_L4"

(* --------------------------- fallback data of the card ----------------- *)
\* Numbers of the fallback are exact fractions of the source's unit.
Times(x, y) == [num |-> x.num * y.num, den |-> x.den * y.den]
Plus(x, y)  == [num |-> x.num * y.den + y.num * x.den, den |-> x.den * y.den]
Less(x, y)  == x.num * y.den < y.num * x.den

MathMax(x, y) == IF Less(x, y) THEN y ELSE x
MathMin(x, y) == IF Less(y, x) THEN y ELSE x

\* baseData of generateDynamicFallbackData.
baseData(param) ==
  CASE param = "sst" ->
         [baseValue |-> Div(285, 10), quality |-> Div(85, 100),
          range |-> [min |-> Div(25, 1), max |-> Div(32, 1)]]
    [] param = "seaLevel" ->
         [baseValue |-> Div(12, 100), quality |-> Div(90, 100),
          range |-> [min |-> Div(-2, 10), max |-> Div(3, 10)]]
    [] param = "chlorophyll" ->
         [baseValue |-> Div(8, 10), quality |-> Div(75, 100),
          range |-> [min |-> Div(1, 10), max |-> Div(20, 10)]]
    [] param = "wind" ->
         [baseValue |-> Div(125, 10), quality |-> Div(88, 100),
          range |-> [min |-> Div(5, 1), max |-> Div(25, 1)]]
    [] param = "rainfall" ->
         [baseValue |-> Div(21, 10), quality |-> Div(82, 100),
          range |-> [min |-> Div(0, 1), max |-> Div(10, 1)]]

\* Math.max(data.range.min, Math.min(data.range.max, randomValue)) for
\* randomValue = data.baseValue * (0.9 + Math.random() * 0.2)
clampedValueOf(data, random) ==
  LET randomFactor == Plus(Div(9, 10), Times(random, Div(2, 10)))
      randomValue  == Times(data.baseValue, randomFactor)
  IN MathMax(data.range.min, MathMin(data.range.max, randomValue))

\* dynamicRisk: 'low' unless one of the four tests makes it 'medium'.
dynamicRiskOf(param, clampedValue) ==
  IF \/ param = "sst" /\ Less(Div(30, 1), clampedValue)
     \/ param = "wind" /\ Less(Div(20, 1), clampedValue)
     \/ param = "rainfall" /\ Less(Div(5, 1), clampedValue)
     \/ param = "chlorophyll" /\ Less(Div(15, 10), clampedValue)
  THEN "medium" ELSE "low"

\* Math.max(0.7, Math.min(0.95, data.quality + (Math.random() - 0.5) * 0.05))
dynamicQualityOf(data, random) ==
  MathMax(Div(70, 100),
          MathMin(Div(95, 100),
                  Plus(data.quality,
                       Times(Plus(random, Div(-1, 2)), Div(5, 100)))))

\* A variant of the rounding that leaves out the division by 100.
roundTo2Scaled(x) == [num |-> (200 * x.num + x.den) \div (2 * x.den), den |-> 1]

\* Math.round(x * 100) / 100
roundTo2(x) == [num |-> (200 * x.num + x.den) \div (2 * x.den), den |-> 100]

\* generateDynamicFallbackData(param) with the two results of Math.random.
generateDynamicFallbackData(param, random1, random2) ==
  IF param \notin KindSet THEN Null
  ELSE LET data         == baseData(param)
           clampedValue == clampedValueOf(data, random1)
       IN [value   |-> roundTo2(clampedValue),
           risk    |-> dynamicRiskOf(param, clampedValue),
           trend   |-> "stable",
           quality |-> dynamicQualityOf(data, random2)]

\* Results of Math.random: the multiples of 1 / MaxDraw in [0, 1).
Draws == {Div(k, MaxDraw) : k \in 0..(MaxDraw - 1)}

\* The card renders its fallback branch.
RenderFallback(param) ==
  /\ \E random1 \in Draws, random2 \in Draws :
       fallbackData' = generateDynamicFallbackData(param, random1, random2)
  /\ cardParameter' = param
  /\ UNCHANGED <<showFallback, timer, view, parameterData>>
  /\ UNCHANGED <<hookVars, serviceVars, trendVars>>

NextFallback == \E param \in KindSet : RenderFallback(param)

SpecFallback == Init /\ [][NextFallback]_vars

(* -------------------- EarthdataOceanographicCard: render ---------------- *)
\* Delay of the timeout the effect of the card sets, in milliseconds.
FallbackDelay == 3000

\* Time up to which the card is followed, in milliseconds.
MaxCardClock == 4000

\* getParameterData: what the card shows of the summary for its parameter.
getParameterData(oceanSummary, param) ==
  IF oceanSummary = Null THEN Null
  ELSE CASE param = "sst" ->
              [value   |-> oceanSummary.parameters.seaSurfaceTemperature.value,
               risk    |-> oceanSummary.parameters.seaSurfaceTemperature.risk,
               trend   |-> oceanSummary.parameters.seaSurfaceTemperature.trend,
               quality |-> oceanSummary.dataQuality.sst.accuracy]
         [] param = "seaLevel" ->
              [value   |-> oceanSummary.parameters.seaLevel.value,
               risk    |-> oceanSummary.parameters.seaLevel.risk,
               trend   |-> oceanSummary.parameters.seaLevel.trend,
               quality |-> oceanSummary.dataQuality.seaLevel.accuracy]
         [] param = "chlorophyll" ->
              [value   |-> oceanSummary.parameters.chlorophyll.value,
               risk    |-> oceanSummary.parameters.chlorophyll.risk,
               trend   |-> "stable",
               quality |-> oceanSummary.dataQuality.chlorophyll.accuracy]
         [] param = "wind" ->
              [value   |-> oceanSummary.parameters.wind.speed,
               risk    |-> oceanSummary.parameters.wind.risk,
               trend   |-> "stable",
               quality |-> oceanSummary.dataQuality.wind.accuracy]
         [] param = "rainfall" ->
              [value   |-> oceanSummary.parameters.rainfall.total,
               risk    |-> oceanSummary.parameters.rainfall.risk,
               trend   |-> "stable",
               quality |-> oceanSummary.dataQuality.rainfall.accuracy]
         [] OTHER -> Null

\* Variant: the fallback branch is taken on showFallback alone.
viewOfFallbackFirst(loading, fallback, data) ==
  IF fallback THEN "fallback"
  ELSE IF loading THEN "skeleton"
  ELSE IF data = Null THEN "nodata"
  ELSE "data"

\* The branch a render of the card returns: the skeleton while loading
\* without fallback, the fallback card while loading with fallback, else the
\* "No Data" card when getParameterData gave null, else the live card.
viewOf(loading, fallback, data) ==
  IF loading /\ ~fallback THEN "skeleton"
  ELSE IF loading /\ fallback THEN "fallback"
  ELSE IF data = Null THEN "nodata"
  ELSE "data"

\* Variant: the effect sets a new timeout in every render.
effectTimerEveryRender(pending, wasLoading, loading, now) ==
  [at |-> now, isLoading |-> loading]

\* The effect with dependencies [isLoading, parameter]: when isLoading
\* differs from the previous render the cleanup clears the pending timeout
\* and a new one is set, whose callback holds this render's isLoading.
effectTimer(pending, wasLoading, loading, now) ==
  IF loading # wasLoading THEN [at |-> now, isLoading |-> loading] ELSE pending

\* The result of Math.random in the renders of a mounted card.
CardDraws == {Div(MaxDraw - 1, MaxDraw)}

\* A render of the card with the query results q, the showFallback state
\* fallback and the timeout pending when the render starts.
CardRender(q, fallback, pending) ==
  LET q2      == renderQueries(q, keyTime, clock)
      loading == isLoading(q2)
      data    == getParameterData(oceanSummaryMemo(q2, clock), cardParameter)
      branch  == viewOf(loading, fallback, data)
  IN /\ RenderHooks(q)
     /\ showFallback' = fallback
     /\ view' = branch
     /\ parameterData' = IF branch \in {"nodata", "data"} THEN data ELSE Null
     /\ IF branch = "fallback"
        THEN \E random1 \in CardDraws, random2 \in CardDraws :
               fallbackData' = generateDynamicFallbackData(cardParameter, random1, random2)
        ELSE UNCHANGED fallbackData
     /\ timer' = effectTimer(pending, isLoading(queries), loading, clock)
     /\ UNCHANGED <<serviceVars, trendVars, cardParameter>>

\* What the provider may answer to the call for one kind while a card is
\* followed: observations, and for the card's own parameter also none.
CardResponses(kind) ==
  {OkResponse(kind, <<Observation(kind, v)>>) : v \in HookValues(kind)}
    \cup (IF kind = cardParameter THEN {OkResponse(kind, <<>>)} ELSE {})

\* The promise of the fetch of one query settles; the card renders again.
CardResolve(kind) ==
  /\ queries[kind].isFetching
  /\ \E r \in CardResponses(kind) :
       CardRender([queries EXCEPT
                     ![kind] = [status |-> "success", data |-> r, isFetching |-> FALSE]],
                  showFallback, timer)
  /\ UNCHANGED clock

\* refetchInterval of one query of the card's hook.
CardRefetch(kind) ==
  /\ queries[kind].data # Undefined
  /\ ~queries[kind].isFetching
  /\ CardRender([queries EXCEPT ![kind].isFetching = TRUE], showFallback, timer)
  /\ UNCHANGED clock

\* The card renders because its parent rendered.
CardRerender ==
  /\ CardRender(queries, showFallback, timer)
  /\ UNCHANGED clock

\* The timeout of the effect expires: its callback sets showFallback when
\* the isLoading of its render was true, and the changed state renders the
\* card again.
TimerFires ==
  /\ timer # Null
  /\ IF timer = Null THEN FALSE ELSE clock >= timer.at + FallbackDelay
  /\ IF timer.isLoading /\ ~showFallback
     THEN CardRender(queries, TRUE, Null)
     ELSE /\ timer' = Null
          /\ UNCHANGED <<hookVars, serviceVars, trendVars>>
          /\ UNCHANGED <<cardParameter, fallbackData, showFallback, view, parameterData>>
  /\ UNCHANGED clock

\* A second passes; a timeout that is due runs first.
Wait ==
  /\ clock + 1000 <= MaxCardClock
  /\ IF timer = Null THEN TRUE ELSE clock < timer.at + FallbackDelay
  /\ clock' = clock + 1000
  /\ UNCHANGED <<keyTime, queries, summary, threat>>
  /\ UNCHANGED <<serviceVars, trendVars, cardVars>>

\* The parameter props of the cards that are followed: one whose card shows
\* value and trend of the summary, one whose card shows total.
CardParameters == {"sst", "rainfall"}

\* A card after its first render.
InitMounted ==
  /\ clock = 0
  /\ keyTime = 0
  /\ queries = [k \in KindSet |-> freshQuery]
  /\ summary = Null
  /\ threat = Null
  /\ InitService
  /\ InitTrends
  /\ cardParameter \in CardParameters
  /\ fallbackData = Null
  /\ showFallback = FALSE
  /\ timer = [at |-> 0, isLoading |-> TRUE]
  /\ view = "skeleton"
  /\ parameterData = Null

NextCard ==
  \/ \E k \in KindSet : CardResolve(k)
  \/ \E k \in KindSet : CardRefetch(k)
  \/ CardRerender
  \/ TimerFires
  \/ Wait

SpecCard == InitMounted /\ [][NextCard]_vars

\* Time passes and a timeout runs when it is due; a fetch may take any time
\* to settle.
SpecCardFair ==
  /\ InitMounted
  /\ [][NextCard]_vars
  /\ WF_vars(TimerFires)
  /\ WF_vars(Wait)

(* ======================= properties: historical trends ================= *)
Selected == trendData[parameter]

\* C17: the trend result is none exactly when the response of the selected
\* parameter is missing or has empty data, and it is the result the hook
\* gives when the other four kinds have no response at all: their
\* responses change neither whether there is a result nor what it holds.
C17_TrendOfSelectedOnly ==
  /\ (trends = Null) <=> (Selected = Undefined \/ Selected.data = <<>>)
  /\ trends = trendsMemo(parameter,
                         [k \in KindSet |-> IF k = parameter THEN Selected
                                            ELSE Undefined])
  /\ trends # Null =>
       /\ trends.parameter = parameter
       /\ trends.data = Selected.data
       /\ trends.statistics.dataPoints = Len(Selected.data)
       /\ \A i \in 1..Len(Selected.data) :
            /\ trends.statistics.min <= valuesOf(parameter, Selected.data)[i]
            /\ trends.statistics.max >= valuesOf(parameter, Selected.data)[i]

\* A result for wind while another kind has failed and a third has no
\* response.
C17_Witness ==
  /\ trends # Null /\ parameter = "wind"
  /\ \E k \in KindSet : trendData[k] = ErrorResponse
  /\ \E k \in KindSet : trendData[k] = Undefined

RECURSIVE ExactSum(_)
ExactSum(xs) == IF xs = <<>> THEN 0 ELSE xs[1] + ExactSum(Tail(xs))

ExactNumerator(ts, vs) ==
  Len(vs) * ExactSum([i \in 1..Len(ts) |-> ts[i] * vs[i]]) - ExactSum(ts) * ExactSum(vs)

ExactDenominator(ts) ==
  Len(ts) * ExactSum([i \in 1..Len(ts) |-> ts[i] * ts[i]]) - ExactSum(ts) * ExactSum(ts)

\* C18 (as claimed): the trend is the class of the least-squares slope
\* (n*Sxy - Sx*Sy) / (n*Sxx - Sx*Sx) of value against timestamp in ms:
\* above 0.001 'increasing', below -0.001 'decreasing', otherwise 'stable';
\* a flat series over two or more distinct timestamps is 'stable'.
C18_ClassifiedByLeastSquaresSlope ==
  trends # Null =>
    LET ts  == timestampsOf(trends.data)
        vs  == valuesOf(parameter, trends.data)
        num == ExactNumerator(ts, vs)
        den == ExactDenominator(ts)
        m   == 1000 \div unitsOf(parameter)
    IN /\ den > 0 =>
            trends.statistics.trend =
              (IF m * num > den THEN "increasing"
               ELSE IF m * num < -den THEN "decreasing" ELSE "stable")
       /\ (Cardinality(Range(vs)) = 1 /\ Cardinality(Range(ts)) >= 2) =>
            trends.statistics.trend = "stable"

(* ======================= properties: fallback data ===================== *)
InRange(x, lo, hi) == ~Less(x, lo) /\ ~Less(hi, x)

\* The range of the fallback value of each kind as documented.
DocumentedRange(kind) ==
  CASE kind = "sst"         -> <<Div(25, 1), Div(32, 1)>>
    [] kind = "seaLevel"    -> <<Div(-2, 10), Div(3, 10)>>
    [] kind = "chlorophyll" -> <<Div(1, 10), Div(2, 1)>>
    [] kind = "wind"        -> <<Div(5, 1), Div(25, 1)>>
    [] kind = "rainfall"    -> <<Div(0, 1), Div(10, 1)>>

\* C19: for every kind and every pair of draws the fallback value lies in
\* the range of the kind and the fallback quality lies in 0.7 .. 0.95.
C19_FallbackInRange ==
  fallbackData # Null =>
    /\ InRange(fallbackData.value, DocumentedRange(cardParameter)[1],
               DocumentedRange(cardParameter)[2])
    /\ InRange(fallbackData.quality, Div(70, 100), Div(95, 100))

\* A sea-level fallback from the largest draw.
C19_Witness ==
  /\ fallbackData # Null /\ cardParameter = "seaLevel"
  /\ fallbackData.value = Div(13, 100)

\* The tier the threshold table of the summary gives to a value in the
\* unit of the source.
TableTier(kind, x) ==
  CASE kind = "sst"         -> sstRisk(Times(x, Div(100, 1)))
    [] kind = "seaLevel"    -> seaLevelRisk(Times(x, Div(1000, 1)))
    [] kind = "chlorophyll" -> chlorophyllRisk(Times(x, Div(1000, 1)))
    [] kind = "wind"        -> windRisk(Times(x, Div(10, 1)))
    [] kind = "rainfall"    -> rainfallRisk(Times(x, Div(100, 1)))

\* C20 (as claimed): the risk tier of the fallback is the tier the
\* threshold table of the summary assigns to the fallback value.
C20_FallbackTierFromTable ==
  fallbackData # Null =>
    fallbackData.risk = TableTier(cardParameter, fallbackData.value)

(* -------------------- the threat notices of the UI ---------------------- *)
\* EarthdataPanel: threatAssessment && threatAssessment.threatLevel !== 'low'
panelBanner(threatAssessment) ==
  IF threatAssessment = Null THEN FALSE ELSE threatAssessment.threatLevel # "low"

\* DynamicPredictionCard: threatAssessment && threatAssessment.overallRisk
\* !== 'low'; a property the object does not have reads as undefined, which
\* is not 'low'.
predictionNotice(threatAssessment) ==
  IF threatAssessment = Null THEN FALSE
  ELSE IF "overallRisk" \in DOMAIN threatAssessment
       THEN threatAssessment.overallRisk # "low"
       ELSE TRUE

\* {threatAssessment.recommendations[0]}: the first entry, undefined for an
\* empty list.
noticeText(threatAssessment) ==
  IF Len(threatAssessment.recommendations) >= 1
  THEN [text |-> threatAssessment.recommendations[1]]
  ELSE Undefined

(* ======================= properties: the parameter card ================ *)
Loading == isLoading(queries)

\* The timeout of the current loading phase is still pending and not due.
WaitNotElapsed == IF timer = Null THEN FALSE ELSE clock < timer.at + FallbackDelay

\* C21: the card displays fallback data only while the aggregator is
\* loading and only when the timeout set at the start of the current loading
\* phase has run out; in particular a later loading phase shows no fallback
\* before its own three seconds have passed.
C21_FallbackOnlyAfterOwnWait ==
  view = "fallback" => Loading /\ ~WaitNotElapsed

\* C21, the part without the later phases: fallback data is displayed only
\* while the aggregator is loading and after a timeout has set showFallback.
C21_FallbackOnlyWhileLoading ==
  view = "fallback" => Loading /\ showFallback

\* C22: when the aggregator is not loading the card never displays fallback
\* data: it displays what getParameterData gives for the summary, also after
\* a fallback was shown; and the step that shows the fallback leaves every
\* fetch that was in flight in flight.
C22_NoFallbackOnceComplete ==
  /\ [](~Loading => /\ view = "data"
                    /\ parameterData = getParameterData(summary, cardParameter)
                    /\ parameterData # Null)
  /\ [][~showFallback /\ showFallback' =>
          \A k \in KindSet : queries[k].isFetching => queries'[k].isFetching]_vars

C22_Witness == showFallback /\ ~Loading /\ view = "data" /\ fallbackData # Null

\* The card shows a value: the live card or the fallback card.
ShowsNumber == view \in {"data", "fallback"}

\* The skeleton is shown in a loading phase whose timeout falls within the
\* time the card is followed.
SkeletonInTime ==
  /\ view = "skeleton"
  /\ IF timer = Null THEN FALSE ELSE timer.at + FallbackDelay <= MaxCardClock

\* C23: when time passes and due timeouts run, a mounted card eventually
\* shows the aggregator's value or a fallback value, whenever the fetches
\* settle; whenever it shows the skeleton it later shows something else; and
\* the skeleton is only shown while the timeout of the loading phase is
\* pending, so for at most the delay of the timeout.
C23_EventuallyShowsNumber ==
  /\ <>ShowsNumber
  /\ SkeletonInTime ~> ShowsNumber
  /\ [](view = "skeleton" =>
          /\ timer # Null
          /\ IF timer = Null THEN FALSE
             ELSE timer.isLoading /\ clock <= timer.at + FallbackDelay)

C23_Witness == view = "fallback" /\ clock = FallbackDelay /\ summary = Null

(* ======================= properties: the aggregator, again ============= *)
\* What the claim compares of a summary: everything but its timestamp and
\* its location.
Outcome(s) ==
  [parameters |-> s.parameters, overallRisk |-> s.overallRisk,
   dataQuality |-> s.dataQuality]

\* C24: the summary is determined by the five responses the queries hold,
\* whatever the order in which they arrived: there is a summary exactly when
\* all five responses are there, and its parameters, overall risk and
\* data-quality records are those the memo gives for these responses alone.
C24_SummaryOfResponsesOnly ==
  /\ (summary = Null) <=> missingData(queries)
  /\ summary # Null => Outcome(summary) = Outcome(oceanSummaryMemo(queries, 0))

C24_Witness ==
  /\ summary # Null
  /\ summary.parameters.seaSurfaceTemperature.risk = "high"
  /\ summary.parameters.wind.speed = NaN
  /\ keyTime > 0

\* The tier of a mean sum / n (n > 0) for the thresholds medium and high.
TierOfExact(sum, n, medium, high) ==
  IF sum > high * n THEN "high" ELSE IF sum > medium * n THEN "medium" ELSE "low"

\* C25: every tier is the tier of the unrounded mean (for rainfall: of the
\* total), also where the value the summary shows is the rounded one and
\* rounds to a threshold; overall risk is taken from these tiers; and the
\* value shown is the reduced value rounded to the unit of the kind (1/100
\* degree, 1/1000 m, 1/1000 mg/m3, 1/10 m/s, 1/100 mm).
C25_TierOfUnroundedMean ==
  (summary # Null /\ \A k \in KindSet : dataOf(k) # <<>>) =>
    LET tSst  == TierOfExact(SumOf("sst", "value"), Len(dataOf("sst")), 2800, 3000)
        tSl   == TierOfExact(Magnitude(SumOf("seaLevel", "value")),
                             Len(dataOf("seaLevel")), 300, 500)
        tChl  == TierOfExact(SumOf("chlorophyll", "value"),
                             Len(dataOf("chlorophyll")), 500, 1000)
        tWnd  == TierOfExact(SumOf("wind", "speed"), Len(dataOf("wind")), 100, 150)
        tRain == TierOfExact(SumOf("rainfall", "accumulation"), 1, 2500, 5000)
    IN /\ P.seaSurfaceTemperature.risk = tSst
       /\ P.seaLevel.risk = tSl
       /\ P.chlorophyll.risk = tChl
       /\ P.wind.risk = tWnd
       /\ P.rainfall.risk = tRain
       /\ summary.overallRisk = overallRiskOf(<<tSst, tSl, tChl, tWnd, tRain>>)
       /\ IsRounded(P.seaSurfaceTemperature.value, SumOf("sst", "value"),
                    Len(dataOf("sst")))
       /\ IsRounded(P.seaLevel.value, SumOf("seaLevel", "value"),
                    Len(dataOf("seaLevel")))
       /\ IsRounded(P.chlorophyll.value, SumOf("chlorophyll", "value"),
                    Len(dataOf("chlorophyll")))
       /\ IsRounded(P.wind.speed, SumOf("wind", "speed"), Len(dataOf("wind")))
       /\ IsRounded(P.rainfall.total, SumOf("rainfall", "accumulation"), 1)

\* Three SST observations with a mean of 30.0033: shown as 30.00, tier high.
C25_Witness ==
  /\ summary # Null
  /\ Len(dataOf("sst")) = 3
  /\ SumOf("sst", "value") = 9001
  /\ P.seaSurfaceTemperature.value = [num |-> 3000, den |-> 1]
  /\ P.seaSurfaceTemperature.risk = "high"

\* The five queries hold responses with observations and none is fetching.
Available ==
  /\ summary # Null
  /\ \A k \in KindSet : dataOf(k) # <<>> /\ ~queries[k].isFetching

\* C26: once the five responses with observations are there, a render of
\* the aggregator for another reason leaves the five queries those of the
\* same keys and leaves the summary available.
C26_RerenderKeepsSummary ==
  [][(Available /\ Rerender) =>
       /\ keyTime' = keyTime
       /\ queries' = queries
       /\ summary' # Null
       /\ ~isLoading(queries')]_vars

(* ======================= properties: the provider, again =============== *)
\* C27 (as claimed): every observation of a fulfilled fetch names as its
\* source the dataset id the call resolved to, and totalCount is the number
\* of observations returned.
C27_SourceIsResolvedDataset ==
  (Fetched /\ result.state = "fulfilled") =>
    /\ \A i \in 1..Len(result.value.data) :
         result.value.data[i].source = datasetOf(call.kind, call.params)
    /\ result.value.metadata.totalCount = Len(result.value.data)

\* C27, the part about the count: totalCount is the number of observations
\* returned, and every observation names the primary dataset of the kind.
C27_CountAndPrimarySource ==
  (Fetched /\ result.state = "fulfilled") =>
    /\ \A i \in 1..Len(result.value.data) :
         result.value.data[i].source = primaryDataset(call.kind)
    /\ result.value.metadata.totalCount = Len(result.value.data)

(* ======================= properties: historical trends, again ========== *)
\* C28 (as claimed): whenever the trend analyzer returns a result the
\* denominator n * sumXX - sumX * sumX of the slope is not zero, so the slope
\* it reports is a finite number, for one observation and for observations
\* of one timestamp too.
C28_SlopeWellDefined ==
  trends # Null => trends.statistics.slope.den # 0

(* ======================= properties: the two aggregates ================ *)
\* C29: overall risk and threat level, both derived from the five tiers of
\* one summary, agree: overall risk is 'low' exactly when the threat score
\* is 0; a 'critical' level needs at least four 'high' tiers and so comes
\* with overall risk 'high'; overall risk 'high' never comes with level 'low'.
C29_AggregatesAgree ==
  Assessed =>
    /\ (summary.overallRisk = "low") <=> (threat.threatScore = 0)
    /\ threat.threatLevel = "critical" =>
         Cardinality(HighKinds) >= 4 /\ summary.overallRisk = "high"
    /\ summary.overallRisk = "high" => threat.threatLevel # "low"

\* Three 'high' tiers with the smallest deltas: overall 'high', level 'medium'.
C29_Witness ==
  /\ Assessed
  /\ HighKinds = {"chlorophyll", "wind", "rainfall"}
  /\ summary.overallRisk = "high"
  /\ threat.threatLevel = "medium"

(* ======================= properties: the threat notices ================ *)
\* C30 (as claimed): the banner of the panel and the notice of the
\* prediction card are shown only when there is an assessment whose level is
\* not 'low', and the recommendation the notice shows is then an entry of
\* the assessment's recommendations.
C30_NoticesOnlyForThreat ==
  /\ panelBanner(threat) => threat # Null /\ threat.threatLevel # "low"
  /\ predictionNotice(threat) =>
       /\ threat # Null
       /\ threat.threatLevel # "low"
       /\ noticeText(threat) # Undefined

\* C30, the part about the panel: its banner is shown exactly when there is
\* an assessment whose level is not 'low'; the notice of the prediction card
\* is shown exactly when there is an assessment.
C30_PanelBannerOnlyForThreat ==
  /\ panelBanner(threat) <=> (threat # Null /\ threat.threatLevel # "low")
  /\ predictionNotice(threat) <=> threat # Null


====
